---------------------------- MODULE Spec2Model ----------------------------
(***************************************************************************)
(* A model of petehayes102/budget_model: the recurrence engine             *)
(* (src/src/frequency.rs) and the contribution solver and schedule builder *)
(* (src/src/contribution.rs).                                              *)
(*                                                                         *)
(* Dates are day numbers counted from 1970-01-01 in the proleptic          *)
(* Gregorian calendar, as chrono's Date<Utc> orders them.  A Duration is a *)
(* number of days.  Option<T> is a sequence: None is << >> and Some(x) is  *)
(* <<x>>.                                                                  *)
(*                                                                         *)
(* A Decimal is the integer count of units of 10^-28, the finest scale     *)
(* rust_decimal carries: the payment values of the model are a few such    *)
(* units, so every sum, product and difference of the code is an integer   *)
(* computed exactly and every division is rounded where rust_decimal       *)
(* rounds it (at the 28th place, half to even).                            *)
(***************************************************************************)
EXTENDS Integers, Sequences, FiniteSets, TLC

VARIABLES
    pc,             \* position of the build call: "idle", "loop", "solve", "done"
    input,          \* arguments of the running call of calculate
    payments,       \* calculate: the working set of payment dates
    start_date,     \* calculate: the window start passed to the solver
    end_date,       \* calculate: the window end passed to the solver (Option)
    contributions,  \* calculate: the chain built so far
    solver,         \* naive_contribution: arguments of the current (re-)entry
    depth,          \* naive_contribution: re-entries made by the current call
    result,         \* outcome of calculate: "none", "Ok", an error, "Panic"
    call,           \* a call of a function of the recurrence engine
    ret             \* what that call returned

vars == <<pc, input, payments, start_date, end_date, contributions, solver,
          depth, result, call, ret>>

-----------------------------------------------------------------------------
(* Option<T> *)

None == << >>

Some(x) == <<x>>

IsSome(o) == Len(o) = 1

Unwrap(o) == o[1]

-----------------------------------------------------------------------------
(* Sequences *)

RECURSIVE SeqMax(_)
SeqMax(s) ==
    IF Len(s) = 1 THEN s[1]
    ELSE LET m == SeqMax(Tail(s)) IN IF s[1] > m THEN s[1] ELSE m

\* the ascending merge of the ascending sequences s and t
RECURSIVE Merge(_, _)
Merge(s, t) ==
    IF s = << >> THEN t
    ELSE IF t = << >> THEN s
    ELSE IF t[1] < s[1] THEN <<t[1]>> \o Merge(s, Tail(t))
    ELSE <<s[1]>> \o Merge(Tail(s), t)

\* sort_unstable on dates: the ascending rearrangement of s
RECURSIVE Sort(_)
Sort(s) ==
    IF Len(s) <= 1 THEN s
    ELSE LET h == Len(s) \div 2
         IN  Merge(Sort(SubSeq(s, 1, h)), Sort(SubSeq(s, h + 1, Len(s))))

Last(s) == s[Len(s)]

-----------------------------------------------------------------------------
(* chrono: the proleptic Gregorian calendar *)

IsLeapYear(y) == (y % 4 = 0 /\ y % 100 # 0) \/ y % 400 = 0

DaysInMonth(y, m) ==
    IF m = 2 THEN (IF IsLeapYear(y) THEN 29 ELSE 28)
    ELSE IF m \in {4, 6, 9, 11} THEN 30 ELSE 31

\* Utc.ymd(y, m, d) for a valid date: days since 1970-01-01
Ymd(y, m, d) ==
    LET yy  == IF m <= 2 THEN y - 1 ELSE y
        era == yy \div 400
        yoe == yy - era * 400
        mp  == IF m > 2 THEN m - 3 ELSE m + 9
        doy == (153 * mp + 2) \div 5 + d - 1
        doe == yoe * 365 + yoe \div 4 - yoe \div 100 + doy
    IN  era * 146097 + doe - 719468

\* Utc.ymd_opt(y, m, d): LocalResult::Single(date) or LocalResult::None
YmdOpt(y, m, d) ==
    IF m \in 1..12 /\ d >= 1 /\ d <= DaysInMonth(y, m)
    THEN Some(Ymd(y, m, d)) ELSE None

\* date.year(), date.month(), date.day()
Civil(z) ==
    LET zz  == z + 719468
        era == zz \div 146097
        doe == zz - era * 146097
        yoe == (doe - doe \div 1460 + doe \div 36524 - doe \div 146096) \div 365
        doy == doe - (365 * yoe + yoe \div 4 - yoe \div 100)
        mp  == (5 * doy + 2) \div 153
        d   == doy - (153 * mp + 2) \div 5 + 1
        m   == IF mp < 10 THEN mp + 3 ELSE mp - 9
        y   == yoe + era * 400 + (IF m <= 2 THEN 1 ELSE 0)
    IN  [year |-> y, month |-> m, day |-> d]

Year(z) == Civil(z).year

Month(z) == Civil(z).month

Day(z) == Civil(z).day

\* date.weekday().number_from_monday(): Monday = 1 .. Sunday = 7
Weekday(z) == ((z + 3) % 7) + 1

-----------------------------------------------------------------------------
(* frequency.rs: recurrence rules *)

MACRO_PERIOD == 1461

MONTH_LENGTHS == <<31, 28, 31, 30, 31, 30, 31, 31, 30, 31, 30, 31>>

MONTH_LENGTHS_LEAP == <<31, 29, 31, 30, 31, 30, 31, 31, 30, 31, 30, 31>>

\* enum Frequency, one record shape for the six variants: `interval` is the
\* leading u32, `list` the Vec<u32>, `nth` the (Option<)u32(>), `day` the
\* FrequencyMonthDay
Once == [kind |-> "Once", interval |-> 0, list |-> << >>, nth |-> None, day |-> "NoDay"]

Daily(days) == [kind |-> "Daily", interval |-> days, list |-> << >>, nth |-> None, day |-> "NoDay"]

Weekly(weeks, days) == [kind |-> "Weekly", interval |-> weeks, list |-> days, nth |-> None, day |-> "NoDay"]

MonthlyDate(months, month_dates) == [kind |-> "MonthlyDate", interval |-> months, list |-> month_dates, nth |-> None, day |-> "NoDay"]

MonthlyDay(months, nth, day) == [kind |-> "MonthlyDay", interval |-> months, list |-> << >>, nth |-> Some(nth), day |-> day]

Yearly(years, months, nth, day) == [kind |-> "Yearly", interval |-> years, list |-> months, nth |-> nth, day |-> day]

\* enum FrequencyMonthDay
FrequencyMonthDay ==
    {"Monday", "Tuesday", "Wednesday", "Thursday", "Friday", "Saturday",
     "Sunday", "Day", "Weekday", "Weekend"}

get_day_of_week(self) ==
    CASE self = "Monday" -> 1
      [] self = "Tuesday" -> 2
      [] self = "Wednesday" -> 3
      [] self = "Thursday" -> 4
      [] self = "Friday" -> 5
      [] self = "Saturday" -> 6
      [] self = "Sunday" -> 7
      [] OTHER -> 0

\* to_macro_periods with the number of macro periods rounded down
to_macro_periods_floor(num, den) ==
    (num \div (den * MACRO_PERIOD)) * MACRO_PERIOD

\* to_macro_periods(days) for days = num / den: ceil(days / MACRO_PERIOD)
\* macro periods
to_macro_periods(num, den) ==
    LET whole == num \div (den * MACRO_PERIOD)
        num_macro == IF whole * den * MACRO_PERIOD = num THEN whole ELSE whole + 1
    IN  num_macro * MACRO_PERIOD

\* months * 365.25 / 12 = months * 1461 / 48; years * 365.25 = years * 1461 / 4
get_period_length(self) ==
    CASE self.kind = "Once" -> 1
      [] self.kind = "Daily" -> self.interval + 1
      [] self.kind = "Weekly" -> 7 * self.interval
      [] self.kind \in {"MonthlyDate", "MonthlyDay"} ->
            to_macro_periods(self.interval * 1461, 48)
      [] self.kind = "Yearly" -> to_macro_periods(self.interval * 1461, 4)

\* the loop of get_dates_for_interval, after `next` was pushed
RECURSIVE dates_after(_, _, _)
dates_after(interval, next, end) ==
    IF next + interval <= end
    THEN <<next + interval>> \o dates_after(interval, next + interval, end)
    ELSE << >>

get_dates_for_interval(interval, start, end) ==
    <<start>> \o dates_after(interval, start, end)

\* increment_to_weekday that rolls a weekday already past to the next week,
\* whatever the interval
increment_to_next_week(date, day, interval) ==
    LET weekday == Weekday(date)
        day2 == IF day < weekday THEN day + 7 ELSE day
    IN  date + (day2 - weekday)

\* fn increment_to_weekday
increment_to_weekday(date, day, interval) ==
    LET weekday == Weekday(date)
        day2 == IF day < weekday THEN day + interval ELSE day
    IN  date + (day2 - weekday)

\* the while loop of get_months_for_interval, from (month, year)
RECURSIVE months_after(_, _, _, _, _)
months_after(interval, month, year, end_month, end_year) ==
    IF year < end_year \/ month + interval <= end_month
    THEN LET m1 == month + interval
             m2 == IF m1 > 12 THEN m1 - 12 ELSE m1
             y2 == IF m1 > 12 THEN year + 1 ELSE year
         IN  <<<<m2, y2>>>> \o months_after(interval, m2, y2, end_month, end_year)
    ELSE << >>

get_months_for_interval(interval, start, end) ==
    <<<<Month(start), Year(start)>>>>
        \o months_after(interval, Month(start), Year(start), Month(end), Year(end))

\* Option<Date<Utc>> as returned by get_date, or the panic of an unwrap
SomeDate(d) == [tag |-> "Some", date |-> d]

NoDate == [tag |-> "None", date |-> 0]

PanicDate == [tag |-> "Panic", date |-> 0]

\* date.with_day(d).unwrap() in month (year, month)
with_day_unwrap(year, month, d) ==
    LET o == YmdOpt(year, month, d)
    IN  IF IsSome(o) THEN SomeDate(Unwrap(o)) ELSE PanicDate

get_date(self, year, month, nth0) ==
    IF month \notin 1..12 THEN PanicDate
    ELSE
    LET date == Ymd(year, month, 1)
        weekday == Weekday(date)
        seek_last == nth0 = 0
        length == IF year % 4 = 0 THEN MONTH_LENGTHS_LEAP[month]
                  ELSE MONTH_LENGTHS[month]
        max_nth == IF get_day_of_week(self) <= length - 28 THEN 5 ELSE 4
        nth == IF seek_last THEN max_nth ELSE nth0
    IN  IF ~seek_last /\ nth0 > max_nth THEN NoDate
        ELSE IF get_day_of_week(self) >= 1 THEN
            SomeDate(increment_to_weekday(date, get_day_of_week(self), 7)
                        + 7 * (nth - 1))
        ELSE IF self = "Day" THEN
            (IF seek_last THEN with_day_unwrap(year, month, length)
             ELSE SomeDate(date + (nth - 1)))
        ELSE IF self = "Weekday" /\ ~seek_last THEN
            LET offset == weekday - 1
                nth2 == IF nth + offset > 5 THEN nth + 2 ELSE nth
            IN  with_day_unwrap(year, month, nth2)
        ELSE IF self = "Weekday" THEN
            LET offset0 == length - 29
                lw0 == weekday + offset0
                last_weekday == IF lw0 > 7 THEN lw0 - 7 ELSE lw0
                offset == IF last_weekday > 5 THEN offset0 - (last_weekday - 5)
                          ELSE offset0
            IN  with_day_unwrap(year, month, 29 + offset)
        ELSE IF ~seek_last THEN
            LET offset == IF weekday = 7 THEN 0 ELSE 6 - weekday
                nth_adjusted == nth - 1 + weekday \div 7
                weekdays == (nth_adjusted \div 2) * 5
            IN  with_day_unwrap(year, month, nth + offset + weekdays)
        ELSE
            LET offset0 == length - 29
                lw0 == weekday + offset0
                last_weekday == IF lw0 > 7 THEN lw0 - 7 ELSE lw0
                offset == IF last_weekday < 6 THEN offset0 - last_weekday
                          ELSE offset0
            IN  with_day_unwrap(year, month, 29 + offset)

\* Vec<Date<Utc>> as returned by get_payment_dates, or the panic of an unwrap
OkDates(ds) == [tag |-> "Ok", dates |-> ds]

PanicDates == [tag |-> "Panic", dates |-> << >>]

\* push `o` when it is a date within [start, end]
push_in_window(acc, o, start, end) ==
    IF acc.tag = "Panic" \/ o.tag = "Panic" THEN PanicDates
    ELSE IF o.tag = "Some" /\ o.date >= start /\ o.date <= end
    THEN OkDates(Append(acc.dates, o.date))
    ELSE acc

\* Utc.ymd_opt as an Option the loops can push
ymd_opt_date(y, m, d) ==
    LET o == YmdOpt(y, m, d) IN IF IsSome(o) THEN SomeDate(Unwrap(o)) ELSE NoDate

\* Weekly: the dates of days[i..], each weekday rolled from `start` and
\* repeated every `interval` days, appended in the order of `days`
RECURSIVE weekly_dates(_, _, _, _, _, _)
weekly_dates(days, i, start, weekday_interval, interval, end) ==
    IF i > Len(days) THEN << >>
    ELSE get_dates_for_interval(interval,
            increment_to_weekday(start, days[i], weekday_interval), end)
         \o weekly_dates(days, i + 1, start, weekday_interval, interval, end)

\* the dates of `candidates` that are Some and within [start, end], in order;
\* a panicking candidate aborts the whole call
push_all_in_window(candidates, start, end) ==
    LET InWindow(o) == o.tag = "Some" /\ o.date >= start /\ o.date <= end
        pushed == SelectSeq(candidates, InWindow)
    IN  IF \E k \in 1..Len(candidates) : candidates[k].tag = "Panic"
        THEN PanicDates
        ELSE OkDates([k \in 1..Len(pushed) |-> pushed[k].date])

\* MonthlyDate: the loops `for (m, y) in month_list { for d in month_dates`,
\* candidate k being date (k-1) % n + 1 of month (k-1) \div n + 1
monthly_date_loop(month_list, month_dates, start, end) ==
    LET n == Len(month_dates)
    IN  push_all_in_window(
            [k \in 1..(Len(month_list) * n) |->
                ymd_opt_date(month_list[((k - 1) \div n) + 1][2],
                             month_list[((k - 1) \div n) + 1][1],
                             month_dates[((k - 1) % n) + 1])],
            start, end)

\* MonthlyDay: the loop `for (m, y) in month_list`
monthly_day_loop(month_list, nth, day, start, end) ==
    push_all_in_window(
        [i \in 1..Len(month_list) |->
            get_date(day, month_list[i][2], month_list[i][1], nth)],
        start, end)

\* Yearly: the loop `for m in months` of one year
RECURSIVE year_month_loop(_, _, _, _, _, _, _, _)
year_month_loop(acc, year, months, j, nth, day, start, end) ==
    IF j > Len(months) \/ acc.tag = "Panic" THEN acc
    ELSE LET o == IF IsSome(nth)
                  THEN (IF day = "NoDay" THEN PanicDate
                        ELSE get_date(day, year, months[j], Unwrap(nth)))
                  ELSE ymd_opt_date(year, months[j], Day(start))
         IN  year_month_loop(push_in_window(acc, o, start, end),
                             year, months, j + 1, nth, day, start, end)

\* Yearly: the loop `for year in start.year()..=end.year()`
RECURSIVE yearly_loop(_, _, _, _, _, _, _, _)
yearly_loop(acc, year, years, months, nth, day, start, end) ==
    IF year > Year(end) \/ acc.tag = "Panic" THEN acc
    ELSE yearly_loop(
            IF (year - Year(start)) % years = 0
            THEN year_month_loop(acc, year, months, 1, nth, day, start, end)
            ELSE acc,
            year + 1, years, months, nth, day, start, end)

get_payment_dates(self, start, end_opt) ==
    LET period_end == (start - 1) + get_period_length(self)
        end == IF IsSome(end_opt) THEN Unwrap(end_opt) ELSE period_end
    IN  CASE self.kind = "Once" -> OkDates(<<start>>)
          [] self.kind = "Daily" ->
                OkDates(get_dates_for_interval(self.interval, start, end))
          [] self.kind = "Weekly" ->
                LET interval == 7 * self.interval
                    start_weekday == Weekday(start)
                    max_day == SeqMax(self.list)
                    weekday_interval ==
                        IF start_weekday > max_day THEN 7 ELSE interval
                IN  OkDates(Sort(weekly_dates(self.list, 1, start,
                                              weekday_interval, interval, end)))
          [] self.kind = "MonthlyDate" ->
                LET month_list == get_months_for_interval(self.interval, start, end)
                    r == monthly_date_loop(month_list, self.list, start, end)
                IN  OkDates(Sort(r.dates))
          [] self.kind = "MonthlyDay" ->
                LET month_list == get_months_for_interval(self.interval, start, end)
                IN  monthly_day_loop(month_list, Unwrap(self.nth), self.day,
                                     start, end)
          [] self.kind = "Yearly" ->
                yearly_loop(OkDates(<< >>), Year(start), self.interval,
                            self.list, self.nth, self.day, start, end)

-----------------------------------------------------------------------------
(* rust_decimal *)

Abs(x) == IF x < 0 THEN 0 - x ELSE x

Sign(x) == IF x < 0 THEN 0 - 1 ELSE IF x > 0 THEN 1 ELSE 0

\* Decimal / Decimal for an amount a and a whole number b > 0: the quotient
\* rounded at the 28th place, half to even
DecDiv(a, b) ==
    LET q == Abs(a) \div b
        r == Abs(a) % b
        up == 2 * r > b \/ (2 * r = b /\ q % 2 = 1)
    IN  Sign(a) * (IF up THEN q + 1 ELSE q)

\* (x * 10^k) % m
RECURSIVE MulPow10Mod(_, _, _)
MulPow10Mod(x, k, m) ==
    IF k = 0 THEN x % m ELSE MulPow10Mod((x * 10) % m, k - 1, m)

\* A number of days with 23 decimal places, such as the quotient of two
\* amounts: [u, t] over the denominator `den` is (u + t * 10^-23) / den.
Days23(u, t) == [u |-> u, t |-> t]

Days23Add(x, y) == Days23(x.u + y.u, x.t + y.t)

Days23Sub(x, y) == Days23(x.u - y.u, x.t - y.t)

\* the sign of (u + t * 10^-23) / den: t stays far below 10^23
Days23Sign(x) == IF x.u # 0 THEN Sign(x.u) ELSE Sign(x.t)

\* (a / b + Decimal::ONE).round_dp(23) for amounts a and b > 0, over the
\* denominator b.  The quotient a / b is first rounded at the 28th place;
\* for b < 1000 that never moves the rounding at the 23rd place.  With
\* w = |a + b| * 10^23 % b the rounded value is (|a + b| * 10^23 - w) / b
\* or that plus one, so b times it is |a + b| * 10^23 - w or + (b - w).
DivPlusOneRound23(a, b) ==
    LET n == Abs(a + b)
        w == MulPow10Mod(n % b, 23, b)
        w2 == MulPow10Mod(n % (2 * b), 23, 2 * b)
        odd == w2 >= b
        up == 2 * w > b \/ (2 * w = b /\ odd)
        t == IF w = 0 THEN 0 ELSE IF up THEN b - w ELSE 0 - w
    IN  Days23(Sign(a + b) * n, Sign(a + b) * t)

-----------------------------------------------------------------------------
(* contribution.rs: the solver *)

\* struct Contribution
Contribution(regular, last, start, end, period_length) ==
    [regular |-> regular, last |-> last, start_date |-> start,
     end_date |-> end, period_length |-> period_length]

NoContribution == Contribution(0, None, 0, None, 0)

\* i64 % i64: the remainder has the sign of the dividend
Rem(a, b) == Sign(a) * (Abs(a) % b)

\* Contribution::period_end(Some(date)) with the days counted from the day
\* after the start
period_end_from_next_day(self, date) ==
    IF IsSome(self.end_date) THEN Unwrap(self.end_date)
    ELSE LET diff == date - self.start_date
             rem == Rem(diff, self.period_length)
         IN  IF rem = 0 THEN date ELSE date + self.period_length - rem

\* Contribution::period_end(Some(date))
contribution_period_end(self, date) ==
    IF IsSome(self.end_date) THEN Unwrap(self.end_date)
    ELSE LET diff == date - self.start_date + 1
             rem == Rem(diff, self.period_length)
         IN  IF rem = 0 THEN date ELSE date + self.period_length - rem

\* Contribution::regular_or_last(date)
regular_or_last(self, date) ==
    IF date >= self.start_date /\ date = contribution_period_end(self, date)
    THEN (IF IsSome(self.last) THEN self.last ELSE Some(self.regular))
    ELSE IF date >= self.start_date /\ date < contribution_period_end(self, date)
    THEN Some(self.regular)
    ELSE None

\* the test of the regular amount only
regular_equals_zero(regular, last) == regular = 0

\* `regular == Decimal::ZERO || last == Some(Decimal::ZERO)`
equals_zero(regular, last) == regular = 0 \/ last = Some(0)

\* calculate_for_duration with the rounding remainder taken over all `days`
\* days instead of the days before the last
calculate_for_duration_whole_days(payment, num_payments, days) ==
    LET total == payment * num_payments
        regular == DecDiv(total, days)
        last == IF regular * days # total
                THEN Some(total - regular * days) ELSE None
    IN  IF equals_zero(regular, last)
        THEN [err |-> "ApproachingZero", regular |-> regular, last |-> last]
        ELSE [err |-> "none", regular |-> regular, last |-> last]

\* Result<(Decimal, Option<Decimal>), ContributionError>
calculate_for_duration(payment, num_payments, days) ==
    LET total == payment * num_payments
        regular == DecDiv(total, days)
        last == IF regular * days # total
                THEN Some(total - regular * (days - 1)) ELSE None
    IN  IF equals_zero(regular, last)
        THEN [err |-> "ApproachingZero", regular |-> regular, last |-> last]
        ELSE [err |-> "none", regular |-> regular, last |-> last]

\* the loop `for date in payment_dates.iter()` from index i on
RECURSIVE walk(_, _, _, _, _, _, _)
walk(payment_dates, i, regular, min_length, lag_date, first_positive_date, cumulative_delta) ==
    IF i > Len(payment_dates)
    THEN [first_positive_date |-> first_positive_date,
          cumulative_delta |-> cumulative_delta]
    ELSE
    LET date == payment_dates[i]
        days == Days23((date - lag_date) * regular, 0)
        delta == Days23Sub(days, min_length)
        fpd == IF Days23Sign(delta) <= 0 THEN None
               ELSE IF first_positive_date = None THEN Some(lag_date)
               ELSE first_positive_date
    IN  IF Days23Sign(cumulative_delta) < 0
           /\ Days23Sign(Days23Add(cumulative_delta, delta)) >= 0
        THEN [first_positive_date |-> fpd, cumulative_delta |-> cumulative_delta]
        ELSE walk(payment_dates, i + 1, regular, min_length, date, fpd,
                  Days23Add(cumulative_delta, delta))

\* the loop `while payment_dates.first() <= Some(&date)`: None <= Some(_), so
\* an emptied vector reaches remove(0) and panics
RECURSIVE shift_prior(_, _, _, _)
shift_prior(payment_dates, date, end, period_length) ==
    IF payment_dates = << >> THEN [panic |-> TRUE, dates |-> << >>]
    ELSE IF payment_dates[1] <= date
    THEN shift_prior(
            IF end = None
            THEN Append(Tail(payment_dates), payment_dates[1] + period_length)
            ELSE Tail(payment_dates),
            date, end, period_length)
    ELSE [panic |-> FALSE, dates |-> payment_dates]

\* what one entry of naive_contribution does
Finalise(c) ==
    [kind |-> "return", branch |-> "none", err |-> "none", contribution |-> c,
     payment_dates |-> << >>, start_date |-> 0, end_date |-> None,
     final_date |-> None]

Fail(e) ==
    [kind |-> "error", branch |-> "none", err |-> e, contribution |-> NoContribution,
     payment_dates |-> << >>, start_date |-> 0, end_date |-> None,
     final_date |-> None]

\* branch names the call site of the recursive call
Recurse(branch, payment_dates, start, end, final_date) ==
    [kind |-> "recurse", branch |-> branch, err |-> "none", contribution |-> NoContribution,
     payment_dates |-> payment_dates, start_date |-> start, end_date |-> end,
     final_date |-> final_date]

\* the Contribution of lines 236-250 with the payments of the whole window as
\* its regular amount
every_day_total(payment, start, end, period_length) ==
    Finalise(Contribution(payment * period_length, None, start, end,
                          period_length))

\* lines 236-250: every day of the window has a payment, the Contribution is
\* the payment itself
every_day(payment, start, end, period_length) ==
    Finalise(Contribution(payment, None, start, end, period_length))

\* lines 314-333 with the first payment moved one day past the next period
skip_first_late(payment_dates, start, end, period_length, final_date) ==
    Recurse("payment_on_start",
            IF end = None
            THEN Append(Tail(payment_dates),
                        payment_dates[1] + period_length + 1)
            ELSE Tail(payment_dates),
            start + 1, end, final_date)

\* lines 314-333: the payment on the start day is removed, moved to the next
\* period when there is no end date, and the start moves on one day
skip_first(payment_dates, start, end, period_length, final_date) ==
    Recurse("payment_on_start",
            IF end = None
            THEN Append(Tail(payment_dates), payment_dates[1] + period_length)
            ELSE Tail(payment_dates),
            start + 1, end, final_date)

\* the call of lines 421-428 with `first` left in the vector
keep_first(payment_dates, end, final_date) ==
    Recurse("remove_first", payment_dates, payment_dates[1] + 1, end,
            final_date)

\* lines 414-428: `let first = payment_dates.remove(0)` and the call with
\* first.succ()
remove_first(payment_dates, end, final_date) ==
    Recurse("remove_first", Tail(payment_dates), payment_dates[1] + 1, end,
            final_date)

\* One entry of naive_contribution: it returns a Contribution, returns an
\* error, or calls itself with new arguments.
naive_contribution(payment, frequency, payment_dates0, start, end, final_date0) ==
    IF IsSome(final_date0) /\ start > Unwrap(final_date0)
    THEN Fail("TooMuchRecursion")
    ELSE IF payment_dates0 = << >> THEN Fail("NoPayments")
    ELSE
    LET period_end == IF IsSome(end) THEN Unwrap(end)
                      ELSE start + get_period_length(frequency) - 1
        period_length == period_end - start + 1
        final_date == IF final_date0 = None THEN Some(period_end) ELSE final_date0
        payment_dates == Sort(payment_dates0)
        n == Len(payment_dates)
    IN  IF payment_dates[1] < start THEN Fail("PaymentOutOfBounds")
        ELSE IF IsSome(end) /\ payment_dates[n] > Unwrap(end)
        THEN Fail("PaymentOutOfBounds")
        ELSE IF n = period_length
        THEN every_day(payment, start, end, period_length)
        ELSE
        LET rl == calculate_for_duration(payment, n, period_length)
            regular == rl.regular
            last == rl.last
        IN  IF rl.err # "none" THEN Fail(rl.err)
            ELSE IF payment_dates[n] < period_end
            THEN (IF IsSome(end)
                  THEN Recurse("trailing_days", payment_dates, start,
                               Some(payment_dates[n]), final_date)
                  ELSE Recurse("trailing_days",
                               Append(Tail(payment_dates),
                                      payment_dates[1] + period_length),
                               payment_dates[1] + 1, None, final_date))
            ELSE IF payment_dates[1] = start
            THEN skip_first(payment_dates, start, end, period_length,
                            final_date)
            ELSE
            LET min_length ==
                    DivPlusOneRound23(
                        payment - (IF IsSome(last) THEN Unwrap(last) ELSE regular),
                        regular)
                w == walk(payment_dates, 1, regular, min_length, start - 1,
                          None, Days23(0, 0))
            IN  IF IsSome(w.first_positive_date)
                THEN LET date == Unwrap(w.first_positive_date)
                         sh == shift_prior(payment_dates, date, end, period_length)
                     IN  IF sh.panic THEN Fail("Panic")
                         ELSE Recurse("first_positive_date", sh.dates, date + 1,
                                      end, final_date)
                ELSE IF Days23Sign(w.cumulative_delta) < 0
                THEN remove_first(payment_dates, end, final_date)
                ELSE Finalise(Contribution(regular, last, start, end,
                                           period_length))

-----------------------------------------------------------------------------
(* contribution.rs: the schedule builder, calculate *)

\* normalise_window without `start_date = now` in the branch of an end date
normalise_window_keep_start(frequency, dates, start, end, now) ==
    IF frequency.kind = "Once"
    THEN [panic |-> FALSE, start |-> now, end |-> Some(start)]
    ELSE IF IsSome(end)
    THEN (IF dates = << >>
          THEN [panic |-> TRUE, start |-> start, end |-> end]
          ELSE [panic |-> FALSE, start |-> start, end |-> Some(Last(dates))])
    ELSE [panic |-> FALSE, start |-> start, end |-> end]

\* `if let Frequency::Once ... else if let Some(end) = end_date.as_mut()`:
\* the window the first solver call gets; payments.last().unwrap() panics
\* on an empty vector
normalise_window(frequency, dates, start, end, now) ==
    IF frequency.kind = "Once"
    THEN [panic |-> FALSE, start |-> now, end |-> Some(start)]
    ELSE IF IsSome(end)
    THEN (IF dates = << >>
          THEN [panic |-> TRUE, start |-> now, end |-> end]
          ELSE [panic |-> FALSE, start |-> now, end |-> Some(Last(dates))])
    ELSE [panic |-> FALSE, start |-> start, end |-> end]

\* payments.retain(|p| *p <= contribution.start_date): a payment on the start
\* day of the segment stays in the working set
RECURSIVE retain_until(_, _)
retain_until(dates, start) ==
    IF dates = << >> THEN << >>
    ELSE IF dates[1] <= start
    THEN <<dates[1]>> \o retain_until(Tail(dates), start)
    ELSE retain_until(Tail(dates), start)

\* payments.retain(|p| *p < contribution.start_date)
RECURSIVE retain_before(_, _)
retain_before(dates, start) ==
    IF dates = << >> THEN << >>
    ELSE IF dates[1] < start
    THEN <<dates[1]>> \o retain_before(Tail(dates), start)
    ELSE retain_before(Tail(dates), start)

\* `if now >= start_date`: a build that starts today refused as well
is_historical_or_today(now, start) == now >= start

\* `if now > start_date`: contributions that start in the past are refused
is_historical(now, start) == now > start

\* end_date = Some(contribution.start_date.pred())
next_end_date(contribution) == Some(contribution.start_date - 1)

\* contributions.push(contribution): the segment goes to the end of the chain
insert_last(chain, contribution) == chain \o <<contribution>>

\* contributions.insert(0, contribution)
insert_first(chain, contribution) == <<contribution>> \o chain

-----------------------------------------------------------------------------
(* The calls of the model *)

MaxValue == 4

MaxInterval == 3

MaxStartOffset == 3

MaxNowLead == 2

MaxDepth == 12

\* payment values: zero, a few units of 10^-28 and one that many lengths
\* divide
Values == (0..MaxValue) \cup {60}

\* the first start date, Sunday 2000-01-30
StartBase == Ymd(2000, 1, 30)

StartDates == {StartBase + o : o \in 0..MaxStartOffset}

EndOffsets == {0, 2, 5, 9, 14}

WeekdaySets == {<<1>>, <<2, 6>>, <<4, 6>>, <<1, 3, 5>>, <<1, 2, 6>>}

SimpleRules ==
    {Once} \cup {Daily(n) : n \in 1..MaxInterval}
        \cup {Weekly(w, ds) : w \in 1..2, ds \in WeekdaySets}

\* Option<Date>: no end, or an end some days after start
EndDates(start) == {None} \cup {Some(start + e) : e \in EndOffsets}

\* rules and windows of the calls of calculate
Windows ==
    {[frequency |-> f, start |-> s, end |-> e] :
        f \in SimpleRules, s \in StartDates, e \in {None}}
    \cup UNION {{[frequency |-> f, start |-> s, end |-> e] :
                    e \in EndDates(s) \ {None}, f \in SimpleRules} :
                s \in StartDates}
    \cup UNION {{[frequency |-> MonthlyDate(1, <<31>>), start |-> s, end |-> e] :
                    e \in EndDates(s) \ {None}} : s \in StartDates}
    \cup {[frequency |-> Yearly(1, <<2>>, None, "NoDay"), start |-> s, end |-> None] :
            s \in {d \in StartDates : Day(d) >= 30}}
    \cup {[frequency |-> MonthlyDate(1, <<5>>), start |-> StartBase, end |-> None]}
    \cup {[frequency |-> Daily(2), start |-> Ymd(2000, 1, 1),
           end |-> Some(Ymd(2000, 1, 3))]}
    \cup {[frequency |-> Yearly(1, <<8, 2>>, None, "NoDay"), start |-> s,
           end |-> Some(Ymd(2000, 12, 31))] :
            s \in {d \in StartDates : Day(d) <= 28}}

NoInput == [value |-> 0, frequency |-> Once, start |-> 0, end |-> None, now |-> 0]

NoSolver == [payment_dates |-> << >>, start_date |-> 0, end_date |-> None,
             final_date |-> None]

NoCall == [op |-> "none", frequency |-> Once, start |-> 0, end |-> None,
           day |-> "NoDay", year |-> 0, month |-> 0, nth |-> 0,
           contribution |-> NoContribution, date |-> 0]

Init ==
    /\ pc = "idle"
    /\ input = NoInput
    /\ payments = << >>
    /\ start_date = 0
    /\ end_date = None
    /\ contributions = << >>
    /\ solver = NoSolver
    /\ depth = 0
    /\ result = "none"
    /\ call = NoCall
    /\ ret = OkDates(<< >>)

\* calculate is called: lines 82-93
Calculate(value, frequency, start, end, now) ==
    /\ pc = "idle"
    /\ input' = [value |-> value, frequency |-> frequency, start |-> start,
                 end |-> end, now |-> now]
    /\ start_date' = start
    /\ end_date' = end
    /\ IF is_historical(now, start)
       THEN pc' = "done" /\ result' = "HistoricalStartDate"
       ELSE pc' = "dates" /\ result' = "none"
    /\ UNCHANGED <<payments, contributions, solver, depth, call, ret>>

\* lines 95-110: the payment dates are generated and the window normalised
GetPaymentDates ==
    /\ pc = "dates"
    /\ LET r == get_payment_dates(input.frequency, start_date, end_date)
           w == normalise_window(input.frequency, r.dates, start_date,
                                 end_date, input.now)
       IN  /\ call' = [NoCall EXCEPT !.op = "get_payment_dates",
                                     !.frequency = input.frequency,
                                     !.start = start_date, !.end = end_date]
           /\ ret' = r
           /\ IF r.tag = "Panic" \/ w.panic
              THEN /\ pc' = "done"
                   /\ result' = "Panic"
                   /\ UNCHANGED <<payments, start_date, end_date>>
              ELSE /\ pc' = "loop"
                   /\ payments' = r.dates
                   /\ start_date' = w.start
                   /\ end_date' = w.end
                   /\ UNCHANGED result
    /\ UNCHANGED <<input, contributions, solver, depth>>

\* line 113, payments remain: the solver is called (lines 117-121)
CallSolver ==
    /\ pc = "loop"
    /\ payments # << >>
    /\ pc' = "solve"
    /\ solver' = [payment_dates |-> payments, start_date |-> start_date,
                  end_date |-> end_date, final_date |-> None]
    /\ depth' = 0
    /\ UNCHANGED <<input, payments, start_date, end_date, contributions,
                   result, call, ret>>

\* line 113, no payment remains: Ok(contributions), line 141
ReturnChain ==
    /\ pc = "loop"
    /\ payments = << >>
    /\ pc' = "done"
    /\ result' = "Ok"
    /\ UNCHANGED <<input, payments, start_date, end_date, contributions,
                   solver, depth, call, ret>>

\* the running entry of naive_contribution
Entry ==
    naive_contribution(input.value, input.frequency, solver.payment_dates,
                       solver.start_date, solver.end_date, solver.final_date)

\* naive_contribution calls itself
SolverRecurse ==
    /\ pc = "solve"
    /\ depth < MaxDepth
    /\ LET entry == Entry
       IN  /\ entry.kind = "recurse"
           /\ solver' = [payment_dates |-> entry.payment_dates,
                         start_date |-> entry.start_date,
                         end_date |-> entry.end_date,
                         final_date |-> entry.final_date]
    /\ depth' = depth + 1
    /\ UNCHANGED <<pc, input, payments, start_date, end_date, contributions,
                   result, call, ret>>

\* naive_contribution returns an error, which `?` returns from calculate
SolverFail ==
    /\ pc = "solve"
    /\ LET entry == Entry
       IN  entry.kind = "error" /\ result' = entry.err
    /\ pc' = "done"
    /\ UNCHANGED <<input, payments, start_date, end_date, contributions,
                   solver, depth, call, ret>>

\* naive_contribution returns a Contribution: lines 123-138
SolverReturn ==
    /\ pc = "solve"
    /\ LET entry == Entry
       IN  /\ entry.kind = "return"
           /\ payments' = retain_before(payments, entry.contribution.start_date)
           /\ end_date' = next_end_date(entry.contribution)
           /\ contributions' = insert_first(contributions, entry.contribution)
    /\ start_date' = input.now
    /\ pc' = "loop"
    /\ UNCHANGED <<input, solver, depth, result, call, ret>>

Next ==
    \/ /\ pc = "idle"
       /\ \E v \in Values, w \in Windows, lead \in (0 - 1)..MaxNowLead :
                Calculate(v, w.frequency, w.start, w.end, w.start - lead)
    \/ GetPaymentDates
    \/ CallSolver
    \/ ReturnChain
    \/ SolverRecurse
    \/ SolverFail
    \/ SolverReturn

Spec == Init /\ [][Next]_vars

-----------------------------------------------------------------------------
(* The calls of the recurrence engine on their own *)

Years == {2000, 2001, 2010, 2100, 2200}

MaxNth == 6

EngineStarts == {Ymd(2000, 1, 3), Ymd(2000, 1, 29), Ymd(2001, 3, 31)}

EngineEndOffsets == {2, 40, 100}

EngineRules ==
    {Once} \cup {Daily(n) : n \in 1..MaxInterval}
        \cup {Weekly(w, ds) : w \in 1..2,
                              ds \in WeekdaySets \cup {<<5>>, <<6, 2>>, <<7, 3, 1>>}}
        \cup {MonthlyDate(k, ds) : k \in {1, 5, 13, 24},
                                   ds \in {<<1>>, <<31>>, <<15, 30>>, <<30, 15>>}}
        \cup {MonthlyDay(k, nth, d) : k \in {1, 5}, nth \in {0, 1, 5},
                                      d \in {"Monday", "Saturday", "Day", "Weekday", "Weekend"}}
        \cup {Yearly(y, ms, None, "NoDay") : y \in 1..2, ms \in {<<2>>, <<2, 8>>, <<8, 2>>}}
        \cup {Yearly(y, ms, Some(nth), d) : y \in 1..2, ms \in {<<2, 8>>, <<8, 2>>},
                                            nth \in {0, 1}, d \in {"Friday", "Weekday"}}

InitEngine ==
    /\ pc = "idle"
    /\ input = NoInput
    /\ payments = << >>
    /\ start_date = 0
    /\ end_date = None
    /\ contributions = << >>
    /\ solver = NoSolver
    /\ depth = 0
    /\ result = "none"
    /\ call = NoCall
    /\ ret = OkDates(<< >>)

\* frequency.get_payment_dates(start, end) is called and returns
PaymentDatesCall(frequency, start, end) ==
    /\ call.op = "none"
    /\ call' = [NoCall EXCEPT !.op = "get_payment_dates",
                              !.frequency = frequency,
                              !.start = start, !.end = end]
    /\ ret' = get_payment_dates(frequency, start, end)
    /\ UNCHANGED <<pc, input, payments, start_date, end_date, contributions,
                   solver, depth, result>>

\* day.get_date(year, month, nth) is called and returns
GetDateCall(day, year, month, nth) ==
    /\ call.op = "none"
    /\ call' = [NoCall EXCEPT !.op = "get_date", !.day = day, !.year = year,
                              !.month = month, !.nth = nth]
    /\ ret' = get_date(day, year, month, nth)
    /\ UNCHANGED <<pc, input, payments, start_date, end_date, contributions,
                   solver, depth, result>>

\* intervals of the rules whose period length is asked for
PeriodIntervals == {1, 2, 3, 4, 5, 8, 12, 47, 48, 49, 96, 97}

PeriodRules ==
    {Once} \cup {Daily(n) : n \in PeriodIntervals}
        \cup {Weekly(n, <<2, 3>>) : n \in PeriodIntervals}
        \cup {MonthlyDate(n, <<1>>) : n \in PeriodIntervals}
        \cup {MonthlyDay(n, 1, "Day") : n \in PeriodIntervals}
        \cup {Yearly(n, <<1>>, None, "NoDay") : n \in PeriodIntervals}

\* Duration returned by get_period_length
DurationDays(n) == [tag |-> "Duration", days |-> n]

\* frequency.get_period_length() is called and returns
PeriodLengthCall(frequency) ==
    /\ call.op = "none"
    /\ call' = [NoCall EXCEPT !.op = "get_period_length", !.frequency = frequency]
    /\ ret' = DurationDays(get_period_length(frequency))
    /\ UNCHANGED <<pc, input, payments, start_date, end_date, contributions,
                   solver, depth, result>>

\* the segments and dates the rate is asked for
MaxPeriod == 3

MaxDateOffset == 7

SegmentStart == Ymd(2000, 4, 1)

Segments ==
    {Contribution(regular, last, SegmentStart, end, period_length) :
        regular \in {1, 3}, last \in {None, Some(2)},
        end \in {None} \cup {Some(SegmentStart + e) : e \in 0..MaxPeriod},
        period_length \in 1..MaxPeriod}

SegmentDates == (SegmentStart - 2)..(SegmentStart + MaxDateOffset)

\* Option<Decimal> returned by regular_or_last
RateOn(rate) == [tag |-> "Rate", rate |-> rate]

\* contribution.regular_or_last(date) is called and returns
RegularOrLastCall(contribution, date) ==
    /\ call.op = "none"
    /\ call' = [NoCall EXCEPT !.op = "regular_or_last",
                              !.contribution = contribution, !.date = date]
    /\ ret' = RateOn(regular_or_last(contribution, date))
    /\ UNCHANGED <<pc, input, payments, start_date, end_date, contributions,
                   solver, depth, result>>

NextEngine ==
    \/ \E f \in PeriodRules : PeriodLengthCall(f)
    \/ /\ call.op = "none"
       /\ \E c \in Segments, d \in SegmentDates : RegularOrLastCall(c, d)
    \/ /\ call.op = "none"
       /\ \E f \in EngineRules, s \in EngineStarts :
            \E e \in {None} \cup {Some(s + o) : o \in EngineEndOffsets} :
                PaymentDatesCall(f, s, e)
    \/ /\ call.op = "none"
       /\ \E d \in FrequencyMonthDay, y \in Years, m \in 1..12, nth \in 0..MaxNth :
                GetDateCall(d, y, m, nth)

SpecEngine == InitEngine /\ [][NextEngine]_vars

-----------------------------------------------------------------------------
(* The calls of the solver on their own, as the tests of contribution.rs make
   them *)

MaxSolveSpan == 5

SolveStart == Ymd(2000, 1, 3)

\* the frequency gives the solver the period of a window without an end
SolveRules == {Daily(2), Weekly(1, <<3, 4, 5>>)}

\* a set of dates as an ascending vector
RECURSIVE DatesOf(_)
DatesOf(S) ==
    IF S = {} THEN << >>
    ELSE LET first == CHOOSE x \in S : \A y \in S : x <= y
         IN  <<first>> \o DatesOf(S \ {first})

\* start, end and payment dates of a call: the payments are not empty and lie
\* from start to end, or to the end of the period from start without an end
SolveWindows ==
    {[frequency |-> f, end |-> e, payment_dates |-> DatesOf(S)] :
        f \in SolveRules,
        e \in {None} \cup {Some(SolveStart + o) : o \in 0..(MaxSolveSpan + 1)},
        S \in (SUBSET (SolveStart..(SolveStart + MaxSolveSpan))) \ {{}}}

InWindow(w) ==
    LET last == w.payment_dates[Len(w.payment_dates)]
    IN  IF IsSome(w.end) THEN last <= Unwrap(w.end)
        ELSE last <= SolveStart + get_period_length(w.frequency) - 1

InitSolve ==
    /\ pc = "idle"
    /\ input = NoInput
    /\ payments = << >>
    /\ start_date = 0
    /\ end_date = None
    /\ contributions = << >>
    /\ solver = NoSolver
    /\ depth = 0
    /\ result = "none"
    /\ call = NoCall
    /\ ret = OkDates(<< >>)

\* naive_contribution(payment, frequency, payment_dates, start, end, None) is
\* called; start_date and end_date keep the arguments of the call
SolveCall(payment, frequency, payment_dates, start, end) ==
    /\ pc = "idle"
    /\ input' = [value |-> payment, frequency |-> frequency, start |-> start,
                 end |-> end, now |-> start]
    /\ payments' = payment_dates
    /\ start_date' = start
    /\ end_date' = end
    /\ solver' = [payment_dates |-> payment_dates, start_date |-> start,
                  end_date |-> end, final_date |-> None]
    /\ depth' = 0
    /\ pc' = "solve"
    /\ UNCHANGED <<contributions, result, call, ret>>

\* naive_contribution returns Ok(contribution) to its caller
SolveReturn ==
    /\ pc = "solve"
    /\ LET entry == Entry
       IN  /\ entry.kind = "return"
           /\ contributions' = <<entry.contribution>>
    /\ result' = "Ok"
    /\ pc' = "done"
    /\ UNCHANGED <<input, payments, start_date, end_date, solver, depth, call,
                   ret>>

NextSolve ==
    \/ /\ pc = "idle"
       /\ \E v \in Values, w \in {x \in SolveWindows : InWindow(x)} :
            SolveCall(v, w.frequency, w.payment_dates, SolveStart, w.end)
    \/ SolverRecurse
    \/ SolverFail
    \/ SolveReturn

SpecSolve == InitSolve /\ [][NextSolve]_vars

-----------------------------------------------------------------------------
(* Properties of the built chain *)

\* days of an open-ended chain that are simulated, in periods after the start
\* of its last segment
HorizonPeriods == 2

\* a build returned Ok(contributions)
Built == pc = "done" /\ result = "Ok"

\* the build has no end to its payments: no end date and a repeating rule
OpenEnded == input.end = None /\ input.frequency.kind # "Once"

\* C1: Non-negativity.  In every chain a build returned, on every day d from
\* the first segment's start to the end of the chain (or, open-ended, to the
\* end of HorizonPeriods periods of the last segment), the per-day rates of
\* the days up to d add up to at least value x the number of the rule's
\* payment dates up to d.
C1_NonNegative ==
    (Built /\ contributions # << >>) =>
        LET chain == contributions
            first == chain[1].start_date
            tail == chain[Len(chain)]
            period == get_period_length(input.frequency)
            horizon == IF IsSome(tail.end_date) THEN Unwrap(tail.end_date)
                       ELSE tail.start_date + HorizonPeriods * tail.period_length - 1
            rate(d) ==
                LET upto[i \in 0..Len(chain)] ==
                        IF i = 0 THEN 0
                        ELSE upto[i - 1]
                                + (IF IsSome(regular_or_last(chain[i], d))
                                   THEN Unwrap(regular_or_last(chain[i], d))
                                   ELSE 0)
                IN  upto[Len(chain)]
            funded[d \in first..horizon] ==
                IF d = first THEN rate(d) ELSE funded[d - 1] + rate(d)
            due(d) ==
                LET upto[i \in 0..Len(ret.dates)] ==
                        IF i = 0 THEN 0
                        ELSE upto[i - 1]
                                + (IF ret.dates[i] > d THEN 0
                                   ELSE IF OpenEnded
                                   THEN (d - ret.dates[i]) \div period + 1
                                   ELSE 1)
                IN  input.value * upto[Len(ret.dates)]
        IN  \A d \in first..horizon : funded[d] >= due(d)

\* C2: Exactness.  Whenever the solver finalises a segment, regular x
\* (length - 1) + (last if present, else regular) equals value x (number of
\* payment dates the segment covers), length being its period length in days.
C2_Exact ==
    (pc = "solve" /\ Entry.kind = "return") =>
        LET c == Entry.contribution
        IN  c.regular * (c.period_length - 1)
                + (IF IsSome(c.last) THEN Unwrap(c.last) ELSE c.regular)
            = input.value * Len(solver.payment_dates)

\* the solver finalises a segment that has a last-day rate
C2_Witness ==
    /\ pc = "solve"
    /\ Entry.kind = "return"
    /\ IsSome(Entry.contribution.last)
    /\ Len(solver.payment_dates) >= 2

\* C3: Chain contiguity.  In a chain of two or more segments every segment but
\* the last has an end date, the next segment starts the day after that end,
\* and the starts ascend.
C3_Contiguous ==
    \A i \in 1..(Len(contributions) - 1) :
        /\ IsSome(contributions[i].end_date)
        /\ contributions[i + 1].start_date = Unwrap(contributions[i].end_date) + 1
        /\ contributions[i].start_date < contributions[i + 1].start_date

\* a build returned a chain of two or more segments
C3_Witness == Built /\ Len(contributions) >= 2

\* C4 as claimed: Coverage from now.  The first segment of every chain a build
\* returned starts on `now`, whether or not an end date was given.
C4_StartsOnNow ==
    (Built /\ contributions # << >>) => contributions[1].start_date = input.now

\* C4 as amended: the first segment of a returned chain starts on `now` when
\* the rule is Once or an end date was given; with a repeating rule and no end
\* date it starts on `now` or on `start`.
C4_StartsOnNowOrStart ==
    (Built /\ contributions # << >>) =>
        IF OpenEnded
        THEN contributions[1].start_date \in {input.now, input.start}
        ELSE contributions[1].start_date = input.now

\* a build with an end date and lead time before `start` returned a chain
C4_Witness ==
    /\ Built
    /\ contributions # << >>
    /\ IsSome(input.end)
    /\ input.frequency.kind # "Once"
    /\ input.now < input.start

\* C5: HistoricalStartDate.  A build fails with HistoricalStartDate exactly
\* when now is after start, and then no payment date has been generated.
C5_Historical ==
    /\ pc = "done" => (result = "HistoricalStartDate" <=> input.now > input.start)
    /\ result = "HistoricalStartDate" =>
            call.op = "none" /\ payments = << >> /\ contributions = << >>

\* a build with now the day after start was refused
C5_Witness ==
    /\ pc = "done"
    /\ result = "HistoricalStartDate"
    /\ input.now = input.start + 1

\* C6: No payments.  A build whose rule generated no payment date in its
\* window fails with NoPayments: no empty chain and no abort.
C6_NoPayments ==
    (pc = "done" /\ call.op = "get_payment_dates"
        /\ ret.tag = "Ok" /\ ret.dates = << >>) => result = "NoPayments"

\* C7: Solver termination.  A re-entry of the solver keeps the fence, and it
\* has a later start or, with an end date, an earlier end: none is made with
\* unchanged payment dates, start and end.
C7_ReentryProgress ==
    [][(pc = "solve" /\ pc' = "solve" /\ depth' = depth + 1) =>
            /\ IsSome(solver.final_date) => solver'.final_date = solver.final_date
            /\ \/ solver'.start_date > solver.start_date
               \/ /\ IsSome(solver.end_date)
                  /\ IsSome(solver'.end_date)
                  /\ Unwrap(solver'.end_date) < Unwrap(solver.end_date)
            /\ <<solver'.payment_dates, solver'.start_date, solver'.end_date>>
                # <<solver.payment_dates, solver.start_date, solver.end_date>>]_vars

-----------------------------------------------------------------------------
(* Properties of the recurrence engine *)

\* get_payment_dates returned a vector
PaymentDatesReturned == call.op = "get_payment_dates" /\ ret.tag = "Ok"

\* C8: Ascending dates.  The dates get_payment_dates returns are in strictly
\* ascending order, without duplicates, for every rule and every order of the
\* weekdays, month dates or months of the rule.
C8_Ascending ==
    PaymentDatesReturned =>
        \A i \in 1..Len(ret.dates), j \in 1..Len(ret.dates) :
            i < j => ret.dates[i] < ret.dates[j]

\* C9: Dates in the window.  Every date get_payment_dates returns is from
\* start to E, E being the end date or, without one, the day before start plus
\* the period length of the rule.
C9_InWindow ==
    PaymentDatesReturned =>
        LET E == IF IsSome(call.end) THEN Unwrap(call.end)
                 ELSE call.start - 1 + get_period_length(call.frequency)
        IN  \A i \in 1..Len(ret.dates) :
                call.start <= ret.dates[i] /\ ret.dates[i] <= E

\* C10: Named weekday.  For a named weekday and an index i >= 1, get_date
\* returns the i-th day of the month that falls on that weekday when the month
\* has i of them, and None otherwise.
C10_NthWeekday ==
    (call.op = "get_date" /\ get_day_of_week(call.day) >= 1 /\ call.nth >= 1) =>
        LET occurrences ==
                {d \in 1..DaysInMonth(call.year, call.month) :
                    Weekday(Ymd(call.year, call.month, d)) = get_day_of_week(call.day)}
            ith == CHOOSE d \in occurrences :
                        Cardinality({e \in occurrences : e <= d}) = call.nth
        IN  IF Cardinality(occurrences) >= call.nth
            THEN ret = SomeDate(Ymd(call.year, call.month, ith))
            ELSE ret = NoDate

\* C11: Last named weekday.  For a named weekday and index 0, get_date
\* returns the last day of the month that falls on that weekday: it is in the
\* month, on the weekday, and seven days later is past the end of the month.
C11_LastWeekday ==
    (call.op = "get_date" /\ get_day_of_week(call.day) >= 1 /\ call.nth = 0) =>
        \E d \in 1..DaysInMonth(call.year, call.month) :
            /\ ret = SomeDate(Ymd(call.year, call.month, d))
            /\ Weekday(Ymd(call.year, call.month, d)) = get_day_of_week(call.day)
            /\ d + 7 > DaysInMonth(call.year, call.month)

\* C12: Business day.  For Weekday and an index i >= 1, get_date returns the
\* i-th day of the month that is a Monday to Friday.
C12_NthBusinessDay ==
    (call.op = "get_date" /\ call.day = "Weekday" /\ call.nth >= 1) =>
        \E d \in 1..DaysInMonth(call.year, call.month) :
            /\ ret = SomeDate(Ymd(call.year, call.month, d))
            /\ Weekday(Ymd(call.year, call.month, d)) <= 5
            /\ Cardinality({e \in 1..d : Weekday(Ymd(call.year, call.month, e)) <= 5})
                    = call.nth

\* C13: Last business day.  For Weekday and index 0, get_date returns a Monday
\* to Friday of the month after which the month has only Saturdays and Sundays.
C13_LastBusinessDay ==
    (call.op = "get_date" /\ call.day = "Weekday" /\ call.nth = 0) =>
        \E d \in 1..DaysInMonth(call.year, call.month) :
            /\ ret = SomeDate(Ymd(call.year, call.month, d))
            /\ Weekday(Ymd(call.year, call.month, d)) <= 5
            /\ \A e \in (d + 1)..DaysInMonth(call.year, call.month) :
                    Weekday(Ymd(call.year, call.month, e)) >= 6

\* C14: Weekend day.  For Weekend, get_date returns the i-th Saturday or
\* Sunday of the month for an index i >= 1 and the last one for index 0.
C14_WeekendDay ==
    (call.op = "get_date" /\ call.day = "Weekend") =>
        \E d \in 1..DaysInMonth(call.year, call.month) :
            /\ ret = SomeDate(Ymd(call.year, call.month, d))
            /\ Weekday(Ymd(call.year, call.month, d)) >= 6
            /\ IF call.nth = 0
               THEN \A e \in (d + 1)..DaysInMonth(call.year, call.month) :
                        Weekday(Ymd(call.year, call.month, e)) <= 5
               ELSE Cardinality({e \in 1..d :
                        Weekday(Ymd(call.year, call.month, e)) >= 6}) = call.nth

\* C15: Calendar day.  For Day, get_date returns day i of the month for an
\* index i from 1 to the length of the month, and the last day of the month
\* for index 0.
C15_CalendarDay ==
    (call.op = "get_date" /\ call.day = "Day"
        /\ call.nth <= DaysInMonth(call.year, call.month)) =>
        ret = SomeDate(Ymd(call.year, call.month,
                           IF call.nth = 0 THEN DaysInMonth(call.year, call.month)
                           ELSE call.nth))

\* C16: Period length.  get_period_length is 1 day for Once, n + 1 days for
\* Daily(n), 7w days for Weekly(w, _), and for an interval of m months (y
\* years) the smallest positive multiple of 1461 days that is at least
\* m x 365.25 / 12 (y x 365.25) days: 1461 days for 3 months or 3 years, 2922
\* days for 49 months or 5 years.
C16_PeriodLength ==
    call.op = "get_period_length" =>
        LET f == call.frequency
            \* the smallest k >= 1 with k x 1461 >= interval x 1461 / per
            Macros(per) == CHOOSE k \in 1..f.interval :
                                /\ k * per >= f.interval
                                /\ (k - 1) * per < f.interval \/ k = 1
        IN  /\ f.kind = "Once" => ret.days = 1
            /\ f.kind = "Daily" => ret.days = f.interval + 1
            /\ f.kind = "Weekly" => ret.days = 7 * f.interval
            /\ f.kind \in {"MonthlyDate", "MonthlyDay"} =>
                    ret.days = 1461 * Macros(48)
            /\ f.kind = "Yearly" => ret.days = 1461 * Macros(4)
            /\ (f.kind \in {"MonthlyDate", "MonthlyDay", "Yearly"} /\ f.interval = 3) =>
                    ret.days = 1461
            /\ (f.kind \in {"MonthlyDate", "MonthlyDay"} /\ f.interval = 49) =>
                    ret.days = 2922
            /\ (f.kind = "Yearly" /\ f.interval = 5) => ret.days = 2922

\* the period length of a rule of 49 months was asked for, and is two macro
\* periods
C16_Witness ==
    /\ call.op = "get_period_length"
    /\ call.frequency.kind = "MonthlyDate"
    /\ call.frequency.interval = 49
    /\ ret.days = 2 * MACRO_PERIOD

\* C17: No payment out of bounds.  No build returns PaymentOutOfBounds: in
\* every call and re-entry of the solver every payment date is on or after the
\* start passed and, when an end is passed, on or before it.
C17_InBounds ==
    /\ pc = "done" => result # "PaymentOutOfBounds"
    /\ pc = "solve" =>
            \A i \in 1..Len(solver.payment_dates) :
                /\ solver.payment_dates[i] >= solver.start_date
                /\ IsSome(solver.end_date) =>
                        solver.payment_dates[i] <= Unwrap(solver.end_date)

\* the running entry of the solver took the branch of lines 413-433
RemovesFirst == pc = "solve" /\ Entry.branch = "remove_first"

EntryRates ==
    LET period_end == IF IsSome(solver.end_date) THEN Unwrap(solver.end_date)
                      ELSE solver.start_date
                            + get_period_length(input.frequency) - 1
        period_length == period_end - solver.start_date + 1
        n == Len(solver.payment_dates)
    IN  IF n = period_length
        THEN [err |-> "none", regular |-> input.value, last |-> None]
        ELSE calculate_for_duration(input.value, n, period_length)

\* the running entry of the solver gets as far as the amounts
ReachesRates ==
    /\ pc = "solve"
    /\ Entry.err \notin {"TooMuchRecursion", "NoPayments", "PaymentOutOfBounds"}

\* a regular or last amount of zero
ZeroRate(c) == c.regular = 0 \/ c.last = Some(0)

\* C19 as stated: for any payment value, an entry of the solver whose regular
\* or last amount is zero fails with ApproachingZero, and no segment of a
\* build has a regular or last amount of zero.
C19_NoZeroRate ==
    /\ (ReachesRates /\ ZeroRate(EntryRates)) => Entry.err = "ApproachingZero"
    /\ \A i \in 1..Len(contributions) : ~ZeroRate(contributions[i])

\* C19: Amounts of zero.  For a payment value above zero, an entry of the
\* solver whose regular or last amount is zero fails with ApproachingZero,
\* and no segment of a build has a regular or last amount of zero.
C19_NoZeroRatePositive ==
    input.value > 0 =>
        /\ (ReachesRates /\ ZeroRate(EntryRates)) =>
                Entry.err = "ApproachingZero"
        /\ \A i \in 1..Len(contributions) : ~ZeroRate(contributions[i])

\* a small value over an open-ended monthly window has failed with
\* ApproachingZero
C19_Witness ==
    /\ pc = "done"
    /\ result = "ApproachingZero"
    /\ input.value > 0
    /\ input.frequency.kind = "MonthlyDate"
    /\ input.end = None

\* the call of Scenario B has returned a chain.  Amounts are counted in units
\* of 10^-28, and the scenario divides the value by two without rounding, so
\* it is taken with every even value of the model.
ScenarioB ==
    /\ Built
    /\ input.value > 0
    /\ input.value % 2 = 0
    /\ input.frequency = Daily(2)
    /\ input.start = Ymd(2000, 1, 1)
    /\ input.end = Some(Ymd(2000, 1, 3))
    /\ input.now = Ymd(2000, 1, 1)

\* C20 as stated: Scenario B returns exactly one segment, with a regular
\* amount of half the value and start 2000-01-02.
C20_OneSegment ==
    ScenarioB =>
        /\ Len(contributions) = 1
        /\ 2 * contributions[1].regular = input.value
        /\ contributions[1].start_date = Ymd(2000, 1, 2)

\* C20: Scenario B returns two segments: the day 2000-01-01 alone with the
\* value as its regular amount, then 2000-01-02 to 2000-01-03 with a regular
\* amount of half the value, neither with a last amount.
C20_TwoSegments ==
    ScenarioB =>
        /\ Len(contributions) = 2
        /\ contributions[1] =
                Contribution(input.value, None, Ymd(2000, 1, 1),
                             Some(Ymd(2000, 1, 1)), 1)
        /\ 2 * contributions[2].regular = input.value
        /\ contributions[2] =
                Contribution(contributions[2].regular, None, Ymd(2000, 1, 2),
                             Some(Ymd(2000, 1, 3)), 2)

\* Scenario B has been built
C20_Witness == ScenarioB /\ contributions # << >>

\* a repeating rule with an end date was built from now = start, its first
\* payment is due on now and some day of the window now..last payment has none
FirstPaymentToday ==
    /\ Built
    /\ input.frequency.kind # "Once"
    /\ IsSome(input.end)
    /\ input.now = input.start
    /\ ret.dates # << >>
    /\ Sort(ret.dates)[1] = input.now
    /\ Len(ret.dates) < Last(Sort(ret.dates)) - input.now + 1

\* the number of days in a row, from now on, that have a payment
RunLength ==
    LET dates == ret.dates
        due(d) == \E i \in 1..Len(dates) : dates[i] = d
    IN  CHOOSE k \in 1..Len(dates) :
            /\ \A j \in 0..(k - 1) : due(input.now + j)
            /\ ~due(input.now + k)

\* C21 as stated: Payment due today.  When an end is given, now = start, the
\* first payment is due on now and not every day of the window has a payment,
\* the chain returned starts with the single day now..now at the full payment
\* value, without a last amount, followed by a segment that starts on now + 1.
C21_TodayAlone ==
    FirstPaymentToday =>
        /\ Len(contributions) >= 2
        /\ contributions[1] =
                Contribution(input.value, None, input.now, Some(input.now), 1)
        /\ contributions[2].start_date = input.now + 1

\* C21: Payments due from today.  Under the same conditions the chain
\* returned starts with one segment for the days in a row, from now on, that
\* have a payment (the single day now when now + 1 has none), at the full
\* payment value and without a last amount, followed by a segment that starts
\* the day after them.
C21_TodayRun ==
    FirstPaymentToday =>
        /\ Len(contributions) >= 2
        /\ contributions[1] =
                Contribution(input.value, None, input.now,
                             Some(input.now + RunLength - 1), RunLength)
        /\ contributions[2].start_date = input.now + RunLength

\* a chain built for payments due on now and on now + 1
C21_Witness == FirstPaymentToday /\ RunLength >= 2

\* calculate has returned for the rule Once and now <= start
OnceDone ==
    /\ pc = "done"
    /\ input.frequency.kind = "Once"
    /\ input.now <= input.start

DailyOpenBuilt ==
    /\ Built
    /\ OpenEnded
    /\ input.frequency.kind = "Daily"
    /\ input.frequency.interval >= 2
    /\ input.value > 0
    /\ input.value % input.frequency.interval = 0
    /\ contributions # << >>

\* C23: Open-ended Daily(n).  For Daily(n), n >= 2, without an end date, the
\* open-ended segment of the chain starts the day after the first payment, has
\* no end date, a period of n days and a regular amount of value / n with no
\* last amount.
C23_DailyOpenEnded ==
    DailyOpenBuilt =>
        LET c == Last(contributions)
            n == input.frequency.interval
        IN  /\ c.start_date = input.start + 1
            /\ c.end_date = None
            /\ c.period_length = n
            /\ c.regular * n = input.value
            /\ c.last = None

\* what a segment collects in one period: regular on every day but the last,
\* last (or regular) on the last
PeriodTotal(c) ==
    c.regular * (c.period_length - 1)
        + (IF IsSome(c.last) THEN Unwrap(c.last) ELSE c.regular)

\* the number of payments the rule of the build makes from start to day d:
\* every interval days for Daily, the dates of the calendar for the others
PaymentsDue(d) ==
    IF input.frequency.kind = "Daily"
    THEN (IF d < input.start THEN 0
          ELSE (d - input.start) \div input.frequency.interval + 1)
    ELSE Len(SelectSeq(get_payment_dates(input.frequency, input.start,
                                         Some(d)).dates,
                       LAMBDA p : p <= d))

\* C24: Break-even recurrence.  In a chain built without an end date, on the
\* last day of every period of the open-ended segment (HorizonPeriods of them
\* are taken) the contributions made so far equal the payments the rule has
\* made so far: no surplus is carried from one period to the next.
C24_BreakEven ==
    (Built /\ OpenEnded /\ contributions # << >>
        /\ Last(contributions).end_date = None) =>
        LET chain == contributions
            tail == Last(chain)
            before[i \in 0..(Len(chain) - 1)] ==
                IF i = 0 THEN 0 ELSE before[i - 1] + PeriodTotal(chain[i])
        IN  \A k \in 1..HorizonPeriods :
                before[Len(chain) - 1] + k * PeriodTotal(tail)
                    = input.value
                        * PaymentsDue(tail.start_date + k * tail.period_length - 1)

\* C25: Rate on a date.  The rate of a segment on a date d is None when d is
\* before its start or, with an end date, after its end; it is the last amount
\* (the regular one when there is none) when d is the end date or, without an
\* end date, when d - start + 1 is a multiple of the period length; it is the
\* regular amount on every other day from start on.
C25_RateOnDate ==
    call.op = "regular_or_last" =>
        LET c == call.contribution
            d == call.date
            last_or_regular == IF IsSome(c.last) THEN c.last ELSE Some(c.regular)
        IN  IF d < c.start_date
                \/ (IsSome(c.end_date) /\ d > Unwrap(c.end_date))
            THEN ret.rate = None
            ELSE IF \/ c.end_date = Some(d)
                    \/ /\ c.end_date = None
                       /\ \E k \in 1..(MaxDateOffset + 1) :
                            d - c.start_date + 1 = k * c.period_length
            THEN ret.rate = last_or_regular
            ELSE ret.rate = Some(c.regular)

\* the last amount was returned for the last day of a later period of a
\* segment without an end date
C25_Witness ==
    /\ call.op = "regular_or_last"
    /\ call.contribution.end_date = None
    /\ call.contribution.period_length >= 2
    /\ call.date >= call.contribution.start_date + call.contribution.period_length
    /\ IsSome(call.contribution.last)
    /\ ret.rate = call.contribution.last

\* the Monday of the week of a date
MondayOf(date) == date - (Weekday(date) - 1)

\* C26: Weekly cadence.  Every date returned for Weekly(w, days) falls on a
\* weekday of `days`, in the anchor week or a multiple of w weeks after it;
\* the anchor week is the week of start, or the week after it when start's
\* weekday is later than every weekday of `days`.
C26_WeeklyCadence ==
    (PaymentDatesReturned /\ call.frequency.kind = "Weekly") =>
        LET days == call.frequency.list
            w == call.frequency.interval
            anchor == IF \A i \in 1..Len(days) : Weekday(call.start) > days[i]
                      THEN MondayOf(call.start) + 7
                      ELSE MondayOf(call.start)
        IN  \A i \in 1..Len(ret.dates) :
                /\ \E j \in 1..Len(days) : Weekday(ret.dates[i]) = days[j]
                /\ MondayOf(ret.dates[i]) >= anchor
                /\ (MondayOf(ret.dates[i]) - anchor) % (7 * w) = 0

\* dates were returned for every second week from a start later in the week
\* than one of the weekdays, over several periods
C26_Witness ==
    /\ PaymentDatesReturned
    /\ call.frequency.kind = "Weekly"
    /\ call.frequency.interval = 2
    /\ \E j \in 1..Len(call.frequency.list) :
            call.frequency.list[j] < Weekday(call.start)
    /\ \E j \in 1..Len(call.frequency.list) :
            call.frequency.list[j] >= Weekday(call.start)
    /\ Len(ret.dates) >= 4

\* the end of the window of the call: the end passed, or the last day of the
\* rule's period from start
WindowEnd ==
    IF IsSome(call.end) THEN Unwrap(call.end)
    ELSE (call.start - 1) + get_period_length(call.frequency)

\* the number of months from the month of date a to the month of date b
MonthsFrom(a, b) == (Year(b) - Year(a)) * 12 + (Month(b) - Month(a))

\* C27: Monthly by date.  For MonthlyDate(k, days), k > 12 included, the dates
\* returned are exactly the dates of the calendar from start to end whose
\* month is a multiple of k months after the month of start and whose day is
\* in `days`; every (month, year) pair enumerated has a month from 1 to 12 and
\* is k months after the pair before it.
C27_MonthlyDate ==
    (PaymentDatesReturned /\ call.frequency.kind = "MonthlyDate") =>
        LET k == call.frequency.interval
            days == call.frequency.list
            month_list == get_months_for_interval(k, call.start, WindowEnd)
            expected ==
                {d \in call.start..WindowEnd :
                    /\ MonthsFrom(call.start, d) % k = 0
                    /\ \E j \in 1..Len(days) : Day(d) = days[j]}
        IN  /\ {ret.dates[i] : i \in 1..Len(ret.dates)} = expected
            /\ Len(ret.dates) = Cardinality(expected)
            /\ \A i \in 1..Len(month_list) : month_list[i][1] \in 1..12
            /\ \A i \in 1..(Len(month_list) - 1) :
                    (month_list[i + 1][2] - month_list[i][2]) * 12
                        + (month_list[i + 1][1] - month_list[i][1]) = k

\* the running entry of the solver returns a Contribution
Finalises == pc = "solve" /\ Entry.kind = "return"

\* C28: No idle tail.  When an entry of the solver returns a segment, the
\* latest of its payment dates is the last day of the segment's period: the
\* end date, or start + period_length - 1 without one.  The end of an entry is
\* never later than the end calculate passed to the solver, and an entry has
\* an end exactly when one was passed.
C28_NoIdleTail ==
    /\ Finalises =>
            LET c == Entry.contribution
                period_end == IF IsSome(c.end_date) THEN Unwrap(c.end_date)
                              ELSE c.start_date + c.period_length - 1
            IN  /\ c.end_date = solver.end_date
                /\ SeqMax(solver.payment_dates) = period_end
    /\ pc = "solve" =>
            /\ IsSome(solver.end_date) <=> IsSome(end_date)
            /\ IsSome(end_date) =>
                    Unwrap(solver.end_date) <= Unwrap(end_date)

\* a segment is returned by an entry whose end was moved back to the last
\* payment
C28_Witness ==
    /\ Finalises
    /\ depth >= 1
    /\ IsSome(end_date)
    /\ Unwrap(solver.end_date) < Unwrap(end_date)

\* C29: No payment on the first day.  A segment the solver returns has a
\* payment on its start date only when it was returned because the payments
\* are as many as the days of the window, with the payment as its regular
\* amount; otherwise its start is before its earliest payment.  The start
\* returned is never earlier than the start passed.
C29_NoPaymentOnStart ==
    /\ Finalises =>
            LET c == Entry.contribution
                first == Sort(solver.payment_dates)[1]
            IN  /\ c.start_date = solver.start_date
                /\ c.start_date <= first
                /\ c.start_date = first =>
                        /\ Len(solver.payment_dates) = c.period_length
                        /\ c.regular = input.value
                        /\ c.last = None
    /\ pc = "solve" => solver.start_date >= start_date

\* a segment is returned that starts after the start passed and before its
\* first payment
C29_Witness ==
    /\ Finalises
    /\ solver.start_date > start_date
    /\ Sort(solver.payment_dates)[1] > solver.start_date
    /\ Len(solver.payment_dates) >= 2

\* C30 as stated: Builder progress.  Every segment the solver returns to
\* calculate starts on or before a payment still in the working set, so the
\* working set afterwards, the payments before the start of the segment, is
\* shorter; the solver has been called at most as often as payment dates were
\* generated.
C30_BuilderProgress ==
    [][(pc = "solve" /\ pc' = "loop") =>
            LET c == contributions'[1]
            IN  /\ \E i \in 1..Len(payments) : c.start_date <= payments[i]
                /\ Len(payments') < Len(payments)
                /\ payments' = SelectSeq(payments, LAMBDA p : p < c.start_date)
                /\ Len(contributions') <= Len(ret.dates)]_vars

\* C30: Builder progress.  After every segment the solver returns to
\* calculate the working set holds the payments before the start of the
\* segment.  When the solver was called with an end date the segment starts
\* on or before a payment of the working set, which gets shorter; the one
\* call without an end date, the first of a build without one, may return a
\* segment that starts after every payment and leave the working set as it
\* was.  The solver has been called at most once more than payment dates were
\* generated.
C30_ProgressWithEnd ==
    [][(pc = "solve" /\ pc' = "loop") =>
            LET c == contributions'[1]
            IN  /\ payments' = SelectSeq(payments, LAMBDA p : p < c.start_date)
                /\ IsSome(end_date) =>
                        /\ \E i \in 1..Len(payments) :
                                c.start_date <= payments[i]
                        /\ Len(payments') < Len(payments)
                /\ end_date = None => contributions = << >>
                /\ Len(contributions') <= Len(ret.dates) + 1]_vars

\* the solver returned a second segment, leaving payments in the working set
C30_Witness ==
    /\ pc = "loop"
    /\ Len(contributions) >= 2
    /\ payments # << >>

=============================================================================
